---- MODULE Spec2Model ----
(***************************************************************************)
(* Model of the hybrid bracketing root finder of src/src/lib.rs            *)
(* (inv_cubic_solve and the step functions it calls).                      *)
(*                                                                         *)
(* Numbers.  The program computes in f64.  A number is modelled as a pair  *)
(* <<n, d>>: with d > 0 it is the rational n/d in lowest terms, and with   *)
(* d = 0 it is one of the three IEEE special values, <<1,0>> = +infinity,  *)
(* <<-1,0>> = -infinity and <<0,0>> = NaN.  Division by zero, inf - inf    *)
(* and 0 * inf behave as in IEEE arithmetic, and every comparison with NaN *)
(* is false.  Zero is unsigned (1/0 = +infinity).                          *)
(*                                                                         *)
(* Finite precision.  An f64 holds only the representable numbers, and an  *)
(* x computed by a step is rounded to the nearest of them (ties to even).  *)
(* The representable x are modelled as the integers: the unit of the model *)
(* is the spacing of the representable numbers around the bracket.  The    *)
(* values inside one evaluation of the interpolation formulas are exact.   *)
(*                                                                         *)
(* The callables.  func and deriv are pure functions the caller chooses.   *)
(* Their value at a point is chosen when the point is first evaluated and  *)
(* remembered in fmem / dmem, so that every later evaluation of the same   *)
(* point returns the same value.  At a non-finite argument func returns    *)
(* NaN, as any arithmetic expression in x does (src/src/main.rs:5).  A     *)
(* value is remembered as long as its point lies between the endpoints of  *)
(* the bracket: no step evaluates a point outside of them that was         *)
(* evaluated before.                                                       *)
(***************************************************************************)
EXTENDS Integers, FiniteSets, Sequences, TLC

VARIABLES
    pc,                   \* "run": at the head of the loop; "done": returned; "fatal": panicked
    x0, x1, tol,          \* the arguments of inv_cubic_solve
    fmem, dmem,           \* func and deriv, at the points evaluated so far
    x,                    \* the bracket, <<x.0, x.1>>
    dx,                   \* its width
    f0, f1, df0, df1,     \* cached values of func and deriv at the bracket's endpoints
    last_coord_changed,
    second_last_coord_changed,
    should_bisect,
    n_iters,
    x_old,                \* the bracket at the head of the last iteration
    x_best,               \* the value returned
    step,                 \* the step the last iteration performed
    cand,                 \* the inverse-cubic candidate of the last iteration (NaN if none)
    x_new, f_new,         \* the point the last step evaluated, and func there
    moved, prev_moved,    \* the endpoint the last iteration moved, and the one before it
    h_in, h_out           \* arguments and result of a direct call of two_point_cubic

vars == <<pc, x0, x1, tol, fmem, dmem, x, dx, f0, f1, df0, df1,
          last_coord_changed, second_last_coord_changed, should_bisect,
          n_iters, x_old, x_best, step, cand, x_new, f_new,
          moved, prev_moved, h_in, h_out>>

\* ---------------------------------------------------------------- bounds

\* the initial endpoints are drawn from 0..GridMax
GridMax == 4
\* tol is drawn from 1..TolMax
TolMax == 2
\* n_iters is counted exactly up to MaxIters - BISECTION_FREQ
MaxIters == 11
\* endpoints without a sign change are drawn at most WidthAny apart
WidthAny == 1
\* arguments of a direct call of two_point_cubic are drawn from -HMax..HMax
HMax == 1

BISECTION_FREQ == 5

\* ------------------------------------------------------------ arithmetic

RECURSIVE Gcd(_, _)
Gcd(a, b) == IF b = 0 THEN a ELSE Gcd(b, a % b)

AbsI(n) == IF n < 0 THEN -n ELSE n

SignI(n) == IF n > 0 THEN 1 ELSE IF n < 0 THEN -1 ELSE 0

\* lowest terms; a zero denominator keeps only the sign of the numerator
Norm(n, d) ==
    IF d = 0 THEN <<SignI(n), 0>>
    ELSE IF d = 1 THEN <<n, 1>>
    ELSE LET g == Gcd(AbsI(n), AbsI(d))
         IN  IF d > 0 THEN <<n \div g, d \div g>> ELSE <<(-n) \div g, (-d) \div g>>

Q(i) == <<i, 1>>

Zero == Q(0)

NaN == <<0, 0>>

PInf == <<1, 0>>

NInf == <<-1, 0>>

IsNaN(a) == a = NaN

IsFinite(a) == a[2] # 0

NegQ(a) == <<-a[1], a[2]>>

MulQ(a, b) == Norm(a[1] * b[1], a[2] * b[2])

AddQ(a, b) ==
    IF a[2] = 0 /\ b[2] = 0
    THEN (IF a = b THEN a ELSE NaN)
    ELSE Norm(a[1] * b[2] + b[1] * a[2], a[2] * b[2])

SubQ(a, b) == AddQ(a, NegQ(b))

RecipQ(a) ==
    IF a[2] = 0 THEN (IF IsNaN(a) THEN NaN ELSE Zero)
    ELSE IF a[1] = 0 THEN PInf
    ELSE Norm(a[2], a[1])

DivQ(a, b) ==
    IF a[2] = 0 /\ b[2] = 0 THEN NaN ELSE MulQ(a, RecipQ(b))

AbsQ(a) == <<AbsI(a[1]), a[2]>>

LtQ(a, b) ==
    IF IsNaN(a) \/ IsNaN(b) THEN FALSE
    ELSE IF a[2] = 0 /\ b[2] = 0 THEN a[1] < b[1]
    ELSE a[1] * b[2] < b[1] * a[2]

LeQ(a, b) == ~IsNaN(a) /\ ~IsNaN(b) /\ (a = b \/ LtQ(a, b))

GtQ(a, b) == LtQ(b, a)

GeQ(a, b) == LeQ(b, a)

\* f64::min and f64::max of two numbers that are not NaN
MinQ(a, b) == IF LtQ(b, a) THEN b ELSE a

MaxQ(a, b) == IF LtQ(a, b) THEN b ELSE a

\* the representable number nearest to a, ties to even
RoundQ(a) ==
    IF a[2] = 0 THEN a
    ELSE LET fl == a[1] \div a[2]
             r  == a[1] - fl * a[2]
         IN  IF 2 * r < a[2] THEN Q(fl)
             ELSE IF 2 * r > a[2] THEN Q(fl + 1)
             ELSE IF fl % 2 = 0 THEN Q(fl) ELSE Q(fl + 1)

\* ------------------------------------------------------------ callables

\* the values func returns: zero and, of either sign, a small and a large one
FVals == {Q(-2), Q(-1), Q(0), Q(1), Q(2)}

\* the values deriv returns: a falling slope, a stationary point, a rising slope
DVals == {Q(-1), Q(0), Q(1)}

\* func(p), where v is the value the caller's function has at a point
\* not evaluated before
func(p, v) ==
    IF p \in DOMAIN fmem THEN fmem[p]
    ELSE IF IsFinite(p) THEN v ELSE NaN

\* deriv(p), likewise
deriv(p, w) ==
    IF p \in DOMAIN dmem THEN dmem[p]
    ELSE IF IsFinite(p) THEN w ELSE NaN

\* v and w are free only where they are read: v when func is called at p,
\* w when deriv is (called is FALSE when the step panicked before)
Fresh(p, v, w, called) ==
    /\ (p \in DOMAIN fmem \/ ~IsFinite(p)) => v = Zero
    /\ (p \in DOMAIN dmem \/ ~IsFinite(p) \/ ~called) => w = Zero

\* f64's != : NaN differs from everything
NeQ(a, b) == IsNaN(a) \/ IsNaN(b) \/ a # b

Remember(mem, p, val) == IF p \in DOMAIN mem THEN mem ELSE (p :> val) @@ mem

\* ---------------------------------------------------------------- steps

\* a step that keeps the other half: the bracket becomes the half next to the
\* endpoint whose func passed the sign test
Classify_WrongHalf(a, b, fa, fb, xn, fn) ==
    IF LeQ(MulQ(fn, fa), Zero)
    THEN [ok |-> TRUE, x |-> <<xn, b>>, x_new |-> xn, f_new |-> fn]
    ELSE IF LeQ(MulQ(fn, fb), Zero)
    THEN [ok |-> TRUE, x |-> <<a, xn>>, x_new |-> xn, f_new |-> fn]
    ELSE [ok |-> FALSE, x |-> <<a, b>>, x_new |-> xn, f_new |-> fn]

\* a sign test that keeps the first half instead of panicking
Classify_NoPanic(a, b, fa, fb, xn, fn) ==
    IF LeQ(MulQ(fn, fa), Zero)
    THEN [ok |-> TRUE, x |-> <<a, xn>>, x_new |-> xn, f_new |-> fn]
    ELSE IF LeQ(MulQ(fn, fb), Zero)
    THEN [ok |-> TRUE, x |-> <<xn, b>>, x_new |-> xn, f_new |-> fn]
    ELSE [ok |-> TRUE, x |-> <<a, xn>>, x_new |-> xn, f_new |-> fn]

\* the sign test shared by the three steps: the new bracket, or a panic
Classify(a, b, fa, fb, xn, fn) ==
    IF LeQ(MulQ(fn, fa), Zero) THEN [ok |-> TRUE, x |-> <<a, xn>>, x_new |-> xn, f_new |-> fn]
    ELSE IF LeQ(MulQ(fn, fb), Zero) THEN [ok |-> TRUE, x |-> <<xn, b>>, x_new |-> xn, f_new |-> fn]
    ELSE [ok |-> FALSE, x |-> <<a, b>>, x_new |-> xn, f_new |-> fn]

naive_bisection(a, b, fa, fb, v) ==
    LET xn == RoundQ(DivQ(AddQ(a, b), Q(2)))
    IN  Classify(a, b, fa, fb, xn, func(xn, v))

false_position(a, b, fa, fb, v) ==
    LET xn == RoundQ(DivQ(SubQ(MulQ(a, fb), MulQ(b, fa)), SubQ(fb, fa)))
    IN  Classify(a, b, fa, fb, xn, func(xn, v))

\* a basis whose h10 does not vanish at t = 1
two_point_cubic_WrongBasis(p, a, b, fa, dfa, fb, dfb) ==
    LET t   == DivQ(SubQ(p, a), SubQ(b, a))
        t2  == MulQ(t, t)
        t3  == MulQ(t2, t)
        h00 == AddQ(SubQ(MulQ(Q(2), t3), MulQ(Q(3), t2)), Q(1))
        h10 == AddQ(SubQ(t3, t2), t)
        h01 == AddQ(MulQ(Q(-2), t3), MulQ(Q(3), t2))
        h11 == SubQ(t3, t2)
    IN  AddQ(AddQ(AddQ(MulQ(fa, h00), MulQ(dfa, h10)), MulQ(fb, h01)), MulQ(dfb, h11))

two_point_cubic(p, a, b, fa, dfa, fb, dfb) ==
    LET t   == DivQ(SubQ(p, a), SubQ(b, a))
        t2  == MulQ(t, t)
        t3  == MulQ(t2, t)
        h00 == AddQ(SubQ(MulQ(Q(2), t3), MulQ(Q(3), t2)), Q(1))
        h10 == AddQ(SubQ(t3, MulQ(Q(2), t2)), t)
        h01 == AddQ(MulQ(Q(-2), t3), MulQ(Q(3), t2))
        h11 == SubQ(t3, t2)
    IN  AddQ(AddQ(AddQ(MulQ(fa, h00), MulQ(dfa, h10)), MulQ(fb, h01)), MulQ(dfb, h11))

two_point_cubic_inverse(a, b, fa, dfa, fb, dfb) ==
    LET y0  == fa
        y1  == fb
        g0  == a
        g1  == b
        dg0 == DivQ(Q(1), dfa)
        dg1 == DivQ(Q(1), dfb)
    IN  two_point_cubic(Zero, y0, y1, g0, dg0, g1, dg1)

\* the candidate of the inverse cubic step, as the f64 that holds it
CubicCandidate(a, b, fa, dfa, fb, dfb) ==
    RoundQ(two_point_cubic_inverse(a, b, fa, dfa, fb, dfb))

\* the test of line 79: the candidate is rejected
Rejected(xn, a, b) == LeQ(xn, a) \/ GeQ(xn, b)

\* lines 79-94 of cubic_bisection, from the x_new that line 77 computed.
\* Err(NaN) is [err |-> TRUE]; Ok and the panic are as in Classify
cubic_bisection(xn, a, b, fa, fb, v) ==
    IF Rejected(xn, a, b)
    THEN [err |-> TRUE, ok |-> FALSE, x |-> <<a, b>>, x_new |-> NaN, f_new |-> NaN]
    ELSE [err |-> FALSE] @@ Classify(a, b, fa, fb, xn, func(xn, v))

\* --------------------------------------------------------------- driver

Grid == {Q(i) : i \in 0..GridMax}

Tols == {Q(i) : i \in 1..TolMax}

\* lines 98-116: the state at the head of the first iteration
Start ==
    /\ pc = "run"
    /\ x0 \in Grid /\ x1 \in Grid /\ tol \in Tols
    /\ f0 \in FVals /\ f1 \in FVals /\ df0 \in DVals /\ df1 \in DVals
    /\ (x0 = x1) => (f0 = f1 /\ df0 = df1)
    /\ fmem = (x0 :> f0) @@ (x1 :> f1)
    /\ dmem = (x0 :> df0) @@ (x1 :> df1)
    /\ x = <<x0, x1>>
    /\ dx = AbsQ(SubQ(x0, x1))
    /\ last_coord_changed = "Reset"
    /\ second_last_coord_changed = "Reset"
    /\ should_bisect = FALSE
    /\ n_iters = 1
    /\ x_old = <<x0, x1>>
    /\ x_best = NaN
    /\ step = "none"
    /\ cand = NaN
    /\ x_new = NaN /\ f_new = NaN
    /\ moved = "None" /\ prev_moved = "None"
    /\ h_in = <<>> /\ h_out = NaN

\* the caller keeps the precondition of the solver: f(x0) * f(x1) <= 0
Init == Start /\ LeQ(MulQ(f0, f1), Zero)

\* the caller breaks it
InitAny == Start /\ GtQ(MulQ(f0, f1), Zero) /\ LeQ(dx, Q(WidthAny))

f_min == MinQ(AbsQ(f0), AbsQ(f1))

\* a convergence test without the function-value criterion
ConvergedWidthOnly == LtQ(AbsQ(dx), tol)

\* line 137
Converged == LtQ(AbsQ(dx), tol) \/ LtQ(f_min, tol)

\* a schedule that ignores the force-bisection flag
BisectionDue_ScheduleOnly == n_iters % BISECTION_FREQ = 0

\* line 142
BisectionDue == n_iters % BISECTION_FREQ = 0 \/ should_bisect

\* line 173; only n_iters % BISECTION_FREQ is ever read, so from MaxIters on
\* the counter is folded back by BISECTION_FREQ
NextIter(n) == IF n < MaxIters THEN n + 1 ELSE n + 1 - BISECTION_FREQ

\* a return that breaks a tie toward the first endpoint
ReturnTieFirst ==
    /\ pc = "run"
    /\ Converged
    /\ pc' = "done"
    /\ x_best' = IF LeQ(AbsQ(f0), AbsQ(f1)) THEN x[1] ELSE x[2]
    /\ x_old' = x
    /\ UNCHANGED <<x0, x1, tol, fmem, dmem, x, dx, f0, f1, df0, df1,
                   last_coord_changed, second_last_coord_changed, should_bisect,
                   n_iters, step, cand, x_new, f_new, moved, prev_moved,
                   h_in, h_out>>

\* lines 134-139: the loop returns the better endpoint
Return ==
    /\ pc = "run"
    /\ Converged
    /\ pc' = "done"
    /\ x_best' = IF LtQ(AbsQ(f0), AbsQ(f1)) THEN x[1] ELSE x[2]
    /\ x_old' = x
    /\ UNCHANGED <<x0, x1, tol, fmem, dmem, x, dx, f0, f1, df0, df1,
                   last_coord_changed, second_last_coord_changed, should_bisect,
                   n_iters, step, cand, x_new, f_new, moved, prev_moved,
                   h_in, h_out>>

\* a failed step after which the loop goes on
PanicContinues(r, kind, c) ==
    /\ pc' = "run"
    /\ step' = kind
    /\ cand' = c
    /\ x_new' = r.x_new /\ f_new' = r.f_new
    /\ x_old' = x
    /\ UNCHANGED <<x0, x1, tol, fmem, dmem, x, dx, f0, f1, df0, df1,
                   last_coord_changed, second_last_coord_changed, should_bisect,
                   n_iters, x_best, moved, prev_moved, h_in, h_out>>

\* the step panicked: the call ends without a value
Panic(r, kind, c) ==
    /\ pc' = "fatal"
    /\ step' = kind
    /\ cand' = c
    /\ x_new' = r.x_new /\ f_new' = r.f_new
    /\ fmem' = Remember(fmem, r.x_new, r.f_new)
    /\ x_old' = x
    /\ UNCHANGED <<x0, x1, tol, dmem, x, dx, f0, f1, df0, df1,
                   last_coord_changed, second_last_coord_changed, should_bisect,
                   n_iters, x_best, moved, prev_moved, h_in, h_out>>

\* a comparison that never reports a stall
Stalled_Never(flag, lcc) == FALSE

\* a comparison that always reports a stall
Stalled_Always(flag, lcc) == TRUE

\* line 168: the endpoint tagged by this iteration is the one tagged before
Stalled(flag, lcc) == flag = lcc

\* the remembered values at the points between the endpoints of the bracket b
Between(mem, b) ==
    [q \in {r \in DOMAIN mem : LeQ(MinQ(b[1], b[2]), r) /\ LeQ(r, MaxQ(b[1], b[2]))}
        |-> mem[q]]

\* lines 155-174: the step returned the bracket r.x; lcc is last_coord_changed
\* and sb is should_bisect as the step selection of lines 142-153 left them
Update(r, kind, c, lcc, sb, v, w) ==
    LET first == NeQ(x[1], r.x[1])
        mem   == Remember(fmem, r.x_new, r.f_new)
        p     == IF first THEN r.x[1] ELSE r.x[2]
        fp    == IF p \in DOMAIN mem THEN mem[p] ELSE v
        dfp   == deriv(p, w)
        flag  == IF first THEN "First" ELSE "Second"
    IN  /\ pc' = "run"
        /\ step' = kind
        /\ cand' = c
        /\ x_new' = r.x_new /\ f_new' = r.f_new
        /\ x_old' = x
        /\ x' = r.x
        /\ fmem' = Between(Remember(mem, p, fp), r.x)
        /\ dmem' = Between(Remember(dmem, p, dfp), r.x)
        /\ f0' = IF first THEN fp ELSE f0
        /\ df0' = IF first THEN dfp ELSE df0
        /\ f1' = IF first THEN f1 ELSE fp
        /\ df1' = IF first THEN df1 ELSE dfp
        /\ second_last_coord_changed' = lcc
        /\ last_coord_changed' = flag
        /\ moved' = IF first THEN "First"
                    ELSE IF NeQ(x[2], r.x[2]) THEN "Second" ELSE "None"
        /\ prev_moved' = moved
        /\ should_bisect' = (sb \/ Stalled(flag, lcc))
        /\ n_iters' = NextIter(n_iters)
        /\ dx' = AbsQ(SubQ(r.x[2], r.x[1]))
        /\ UNCHANGED <<x0, x1, tol, x_best, h_in, h_out>>

\* one iteration of the loop from the result r of its step
Finish(r, kind, c, lcc, sb, v, w) ==
    /\ Fresh(r.x_new, v, w, r.ok)
    /\ IF r.ok THEN Update(r, kind, c, lcc, sb, v, w) ELSE Panic(r, kind, c)

\* lines 142-146 and 155-174: an iteration that bisects
BisectionIteration ==
    /\ pc = "run"
    /\ ~Converged
    /\ BisectionDue
    /\ \E v \in FVals, w \in DVals :
          \E r \in {naive_bisection(x[1], x[2], f0, f1, v)} :
             Finish(r, "bisection", NaN, "Reset", FALSE, v, w)

\* lines 147-152 and 155-174: an iteration whose inverse cubic candidate is taken
CubicIteration ==
    /\ pc = "run"
    /\ ~Converged
    /\ ~BisectionDue
    /\ \E c \in {CubicCandidate(x[1], x[2], f0, df0, f1, df1)} :
        \E v \in FVals, w \in DVals :
        \E r \in {cubic_bisection(c, x[1], x[2], f0, f1, v)} :
           /\ ~r.err
           /\ Finish(r, "cubic", c, last_coord_changed, should_bisect, v, w)

\* lines 147-152 and 155-174: cubic_bisection returned Err, false position runs
FalsePositionIteration ==
    /\ pc = "run"
    /\ ~Converged
    /\ ~BisectionDue
    /\ \E c \in {CubicCandidate(x[1], x[2], f0, df0, f1, df1)} :
        \E v \in FVals, w \in DVals :
           /\ cubic_bisection(c, x[1], x[2], f0, f1, v).err
           /\ \E r \in {false_position(x[1], x[2], f0, f1, v)} :
                 Finish(r, "false_position", c, last_coord_changed, should_bisect, v, w)

Next ==
    \/ Return
    \/ BisectionIteration
    \/ CubicIteration
    \/ FalsePositionIteration

Spec == Init /\ [][Next]_vars

\* The loop has no suspension point: whatever it can do next, it does.  The
\* return is enabled when the convergence test holds; an iteration is enabled
\* exactly when pc = "run" /\ ~Converged, and its weak fairness is written
\* out with that state predicate in the place of ENABLED.
FairSpec ==
    /\ Spec
    /\ WF_vars(Return)
    /\ (<>[](pc = "run" /\ ~Converged) => []<><<Next>>_vars)

SpecAny == InitAny /\ [][Next]_vars

\* the caller keeps the precondition and passes the endpoints in order
InitOrdered == Init /\ LtQ(x0, x1)

SpecOrdered == InitOrdered /\ [][Next]_vars

\* the caller keeps the precondition and passes the endpoints in reverse order
InitReversed == Init /\ GtQ(x0, x1)

SpecReversed == InitReversed /\ [][Next]_vars

\* ------------------------------------------- two_point_cubic, called directly

HVals == {Q(i) : i \in -HMax..HMax}

\* a call two_point_cubic(x, x0, x1, f0, df0, f1, df1) with x0 # x1
InitH ==
    /\ pc = "call"
    /\ h_in \in [p : HVals, a : HVals, b : HVals, fa : HVals, dfa : HVals,
                  fb : HVals, dfb : HVals]
    /\ h_in.a # h_in.b
    /\ h_out = NaN
    /\ x0 = Zero /\ x1 = Zero /\ tol = Q(1)
    /\ fmem = <<>> /\ dmem = <<>>
    /\ x = <<Zero, Zero>> /\ dx = Zero
    /\ f0 = Zero /\ f1 = Zero /\ df0 = Zero /\ df1 = Zero
    /\ last_coord_changed = "Reset"
    /\ second_last_coord_changed = "Reset"
    /\ should_bisect = FALSE
    /\ n_iters = 1
    /\ x_old = <<Zero, Zero>>
    /\ x_best = NaN
    /\ step = "none"
    /\ cand = NaN
    /\ x_new = NaN /\ f_new = NaN
    /\ moved = "None" /\ prev_moved = "None"

Evaluate ==
    /\ pc = "call"
    /\ pc' = "ret"
    /\ h_out' = two_point_cubic(h_in.p, h_in.a, h_in.b, h_in.fa, h_in.dfa,
                                h_in.fb, h_in.dfb)
    /\ UNCHANGED <<x0, x1, tol, fmem, dmem, x, dx, f0, f1, df0, df1,
                   last_coord_changed, second_last_coord_changed, should_bisect,
                   n_iters, x_old, x_best, step, cand, x_new, f_new,
                   moved, prev_moved, h_in>>

NextH == Evaluate

SpecH == InitH /\ [][NextH]_vars

\* ------------------------------------------------------------------ claims

\* the loop is at its head: about to test convergence, or returned from there
AtHead == pc = "run" \/ pc = "done"

\* func at a point it was evaluated at
F(p) == fmem[p]

\* C1: under the precondition f(x0)*f(x1) <= 0, at the head of every iteration
\* the cached values f0, f1 are func at the bracket's endpoints and
\* f0 * f1 <= 0, whatever steps were taken before.
C1_SignChange ==
    AtHead => /\ LeQ(MulQ(f0, f1), Zero)
              /\ LeQ(MulQ(F(x[1]), F(x[2])), Zero)

\* an iteration past the first scheduled bisection, on a bracket that moved
C1_Witness ==
    /\ pc = "run"
    /\ n_iters = BISECTION_FREQ + 2
    /\ x # <<x0, x1>>
    /\ step \in {"cubic", "false_position"}

\* C2: the value returned is an endpoint of the final bracket, the one with
\* the smaller |func| (the second on a tie), and there the width of the
\* bracket is < tol or |func| of the value is < tol.
C2_Output ==
    pc = "done" =>
        /\ x_best = (IF LtQ(AbsQ(F(x[1])), AbsQ(F(x[2]))) THEN x[1] ELSE x[2])
        /\ \/ LtQ(AbsQ(SubQ(x[2], x[1])), tol)
           \/ LtQ(AbsQ(F(x_best)), tol)

\* returned after an iteration that moved the first endpoint, which is the
\* better one and is the value returned
C2_Witness ==
    /\ pc = "done"
    /\ n_iters > 1
    /\ x[1] # x0
    /\ LtQ(AbsQ(F(x[1])), AbsQ(F(x[2])))
    /\ x_best = x[1]

\* C3: under the precondition and with tol > 0 no step reaches its panic.
C3_NoFatal == pc # "fatal"

\* C4: under the precondition and with tol > 0 the loop eventually returns.
C4_Terminates == <>(pc = "done")

\* C4, the least it asks for: under the precondition and with tol > 0 the
\* call eventually ends, by the return the claim speaks of or else by a panic.
C4_LoopEnds == <>(pc = "done" \/ pc = "fatal")

\* C5: after 5k completed iterations (n_iters = 5k + 1, counted exactly) the
\* width of the bracket is <= the initial width / 2^k.
C5_Bound ==
    \A k \in 0..((MaxIters - BISECTION_FREQ - 1) \div BISECTION_FREQ) :
        (AtHead /\ n_iters = BISECTION_FREQ * k + 1)
            => LeQ(MulQ(dx, Q(2 ^ k)), AbsQ(SubQ(x1, x0)))

\* the last two iterations moved the same endpoint of the bracket
SameTwice ==
    /\ AtHead
    /\ moved # "None"
    /\ moved = prev_moved

\* a step of the loop that is an iteration, not the return
IterationStep == pc = "run" /\ pc' # "done"

\* C6 as claimed: whenever two consecutive iterations updated the same
\* endpoint, whatever step each performed, the force-bisection flag is set.
C6_Original == SameTwice => should_bisect

\* C6 as amended: whenever two consecutive iterations updated the same endpoint
\* and the second of them performed an inverse cubic or a false-position step,
\* the force-bisection flag is set; and an iteration that starts with the flag
\* set performs a bisection, whatever n_iters is.
C6_Stall ==
    /\ []((SameTwice /\ step # "bisection") => should_bisect)
    /\ [][(IterationStep /\ should_bisect) => step' = "bisection"]_vars

\* two consecutive iterations moved the same endpoint, the second by an
\* inverse cubic or a false-position step: the flag is set, and the iteration
\* to come, whose index is no multiple of BISECTION_FREQ, bisects
C6_Witness ==
    /\ pc = "run"
    /\ ~Converged
    /\ SameTwice
    /\ step # "bisection"
    /\ should_bisect
    /\ n_iters % BISECTION_FREQ # 0

\* the call is at the head of iteration 1 (n_iters is 1 nowhere else) and the
\* initial bracket has an endpoint with |func| < tol
Degenerate ==
    /\ n_iters = 1
    /\ x = <<x0, x1>>
    /\ LtQ(AbsQ(F(x0)), tol) \/ LtQ(AbsQ(F(x1)), tol)

\* C7: from a degenerate initial bracket the only step of the solver is the
\* return, in iteration 1: no bisection, inverse cubic or false-position step
\* is performed, and func and deriv are evaluated at the two initial endpoints
\* only.
C7_Degenerate ==
    [][(pc = "run" /\ Degenerate)
          => /\ pc' = "done"
             /\ n_iters' = 1
             /\ step' = "none"
             /\ x' = <<x0, x1>>
             /\ DOMAIN fmem' = {x0, x1}
             /\ DOMAIN dmem' = {x0, x1}]_vars

\* returned in iteration 1 from a degenerate bracket that is not narrower than tol
C7_Witness ==
    /\ pc = "done"
    /\ Degenerate
    /\ ~LtQ(AbsQ(dx), tol)

\* the cubic p with p(a) = fa, p'(a) = dfa, p(b) = fb, p'(b) = dfb, at q,
\* in Newton's form on the nodes a, a, b, b
ExactCubic(q, a, b, fa, dfa, fb, dfb) ==
    LET h  == SubQ(b, a)
        s  == DivQ(SubQ(fb, fa), h)
        c2 == DivQ(SubQ(s, dfa), h)
        c3 == DivQ(AddQ(SubQ(dfb, MulQ(Q(2), s)), dfa), MulQ(h, h))
        u  == SubQ(q, a)
    IN  AddQ(AddQ(AddQ(fa, MulQ(dfa, u)), MulQ(c2, MulQ(u, u))),
             MulQ(c3, MulQ(MulQ(u, u), SubQ(q, b))))

\* C8: two_point_cubic returns the value at x of the cubic that matches
\* f0, df0 at x0 and f1, df1 at x1, for every x0 # x1.
C8_Hermite ==
    pc = "ret" => h_out = ExactCubic(h_in.p, h_in.a, h_in.b, h_in.fa, h_in.dfa,
                                     h_in.fb, h_in.dfb)

\* func at the new point has the sign of func at both endpoints
SameSign(fn, fa, fb) == GtQ(MulQ(fn, fa), Zero) /\ GtQ(MulQ(fn, fb), Zero)

\* C9: a step whose new point has func of the sign of both endpoints ends the
\* call in the fatal state, with the bracket as it was and no value returned;
\* nothing follows the fatal state or the return; a call that returned has a
\* value and a call that panicked has none.
C9_Fatal ==
    /\ [](pc = "fatal" => IsNaN(x_best))
    /\ [](pc = "done" => IsFinite(x_best))
    /\ [][/\ (IterationStep /\ SameSign(f_new', f0, f1))
                => (pc' = "fatal" /\ x' = x /\ x_best' = x_best)
          /\ pc \notin {"fatal", "done"}]_vars

\* a step panicked on a new point with func of the sign of both endpoints
C9_Witness ==
    /\ pc = "fatal"
    /\ SameSign(f_new, f0, f1)

\* C10: in a non-bisection iteration the inverse cubic candidate is taken
\* exactly when it lies strictly inside (x.0, x.1); otherwise, also when it
\* is no finite number, false position runs.
C10_Rejection ==
    (pc \in {"run", "fatal"} /\ step \in {"cubic", "false_position"})
        => ((LtQ(x_old[1], cand) /\ LtQ(cand, x_old[2])) <=> step = "cubic")

\* C11: an iteration bisects exactly when its index is a multiple of
\* BISECTION_FREQ or the force-bisection flag is set; every other iteration
\* computes the inverse cubic candidate first, takes it unless line 79
\* rejects it, and runs false position only after a rejection.
C11_Schedule ==
    [][IterationStep
          => /\ step' \in {"bisection", "cubic", "false_position"}
             /\ (step' = "bisection")
                   <=> (n_iters % BISECTION_FREQ = 0 \/ should_bisect)
             /\ (step' = "cubic") => ~Rejected(cand', x[1], x[2])
             /\ (step' = "false_position") => Rejected(cand', x[1], x[2])]_vars

\* iteration BISECTION_FREQ was reached and bisected
C11_Witness ==
    /\ pc = "run"
    /\ n_iters = BISECTION_FREQ + 1
    /\ step = "bisection"

\* C12: a bisection step that does not abort returns (x0, m) or (m, x1) with
\* m = (x0 + x1)/2, a bracket of exactly half the width of the one it was given.
C12_Halving ==
    (pc = "run" /\ step = "bisection")
        => /\ x_new = DivQ(AddQ(x_old[1], x_old[2]), Q(2))
           /\ x \in {<<x_old[1], x_new>>, <<x_new, x_old[2]>>}
           /\ MulQ(Q(2), dx) = AbsQ(SubQ(x_old[2], x_old[1]))

\* the cached values are func and deriv at the endpoints of the bracket
Coherent ==
    /\ f0 = fmem[x[1]] /\ f1 = fmem[x[2]]
    /\ df0 = dmem[x[1]] /\ df1 = dmem[x[2]]

\* C13: every iteration changes exactly one endpoint of the bracket and leaves
\* the other one alone, and at the head of every iteration the cached values
\* are func and deriv at the endpoints of the bracket.
C13_Frame ==
    /\ AtHead => Coherent
    /\ (pc = "run" /\ step # "none")
          => (x[1] # x_old[1]) # (x[2] # x_old[2])

\* C14: two_point_cubic returns f0 at x = x0 and f1 at x = x1, whatever df0
\* and df1 are.
C14_Endpoints ==
    pc = "ret" => /\ (h_in.p = h_in.a) => (h_out = h_in.fa)
                  /\ (h_in.p = h_in.b) => (h_out = h_in.fb)

\* evaluated at x1, with f0 # f1 and both derivatives non-zero, on an interval
\* of length 2
C14_Witness ==
    /\ pc = "ret"
    /\ h_in.p = h_in.b
    /\ h_in.fa # h_in.fb
    /\ h_in.dfa # Zero /\ h_in.dfb # Zero
    /\ AbsQ(SubQ(h_in.b, h_in.a)) = Q(2)
    /\ h_out = h_in.fb

\* C15: from x0 < x1, every iteration returns a strict sub-interval of the
\* bracket it started with: the left endpoint does not decrease, the right
\* one does not increase, x.0 < x.1 still holds, and the width is strictly
\* smaller, after a false-position step too.
C15_Nested ==
    /\ AtHead => LtQ(x[1], x[2])
    /\ (pc = "run" /\ step # "none")
          => /\ LeQ(x_old[1], x[1])
             /\ LeQ(x[2], x_old[2])
             /\ LtQ(dx, AbsQ(SubQ(x_old[2], x_old[1])))

\* C16: at the end of an iteration that bisected the force-bisection flag is
\* false; so two consecutive iterations both bisect only when the index of the
\* second is a multiple of BISECTION_FREQ.
C16_NoStallSignal ==
    /\ []((AtHead /\ step = "bisection") => ~should_bisect)
    /\ [][(IterationStep /\ step = "bisection" /\ step' = "bisection")
              => n_iters % BISECTION_FREQ = 0]_vars

\* a bisection moved the endpoint the iteration before it had moved, the flag
\* is false, and the iteration to come does not bisect
C16_Witness ==
    /\ pc = "run"
    /\ ~Converged
    /\ step = "bisection"
    /\ SameTwice
    /\ ~should_bisect
    /\ n_iters % BISECTION_FREQ # 0

\* C17: from initial endpoints with f(x0)*f(x1) > 0, an iteration 1 that does
\* not panic returns a bracket with a sign change: from iteration 2 on the
\* cached values satisfy f0*f1 <= 0 and so does func at the endpoints.
C17_NonBracketing ==
    (AtHead /\ n_iters > 1)
        => /\ LeQ(MulQ(f0, f1), Zero)
           /\ LeQ(MulQ(F(x[1]), F(x[2])), Zero)

\* iteration 1 ran on endpoints without a sign change, did not panic and
\* moved the bracket; the loop goes on
C17_Witness ==
    /\ pc = "run"
    /\ ~Converged
    /\ n_iters = 2
    /\ x # <<x0, x1>>

\* C18: from x0 > x1 the bracket keeps x.0 > x.1, the inverse cubic candidate
\* of every non-bisection iteration is rejected by line 79, so that no inverse
\* cubic step is ever applied, and the sign change and the output
\* postcondition hold as they do for x0 < x1.
C18_Reversed ==
    /\ AtHead => /\ GtQ(x[1], x[2])
                  /\ LeQ(MulQ(f0, f1), Zero)
    /\ step # "cubic"
    /\ step = "false_position" => Rejected(cand, x_old[1], x_old[2])
    /\ pc = "done" =>
          /\ x_best = (IF LtQ(AbsQ(f0), AbsQ(f1)) THEN x[1] ELSE x[2])
          /\ LtQ(dx, tol) \/ LtQ(AbsQ(F(x_best)), tol)

====
